---- MODULE Spec2Model ----
(***************************************************************************)
(* Warehouse management system (WMS): the movement ledger and the slot     *)
(* registry, as written by the four movement entry points of the           *)
(* repository:                                                             *)
(*   api_register_movement   src/backend/main.py  (tables locations,       *)
(*   register_movement       src/app.py            movements, products)    *)
(*   registrar_entrada       src/database.py      (tables ubicaciones,     *)
(*   registrar_salida        src/database.py       movimientos, productos) *)
(* and as seeded by the bootstraps init_db (src/init_db.py) and            *)
(* crear_ubicaciones_ejemplo (src/database.py).                            *)
(* All of them open their own sqlite3 connection on the one file wms.db.   *)
(* sqlite3 (Python's legacy transaction control, rollback journal) gives:  *)
(*   - a SELECT reads the committed database and keeps no lock;            *)
(*   - the first INSERT/UPDATE of a connection opens a transaction and     *)
(*     takes the file's single write lock, or raises "database is locked"  *)
(*     when another connection keeps it longer than the busy timeout;      *)
(*   - the writes of a transaction are private to the connection until     *)
(*     commit() publishes them all at once; closing or finalising a        *)
(*     connection without commit() rolls them back;                        *)
(*   - FOREIGN KEY clauses are not enforced (PRAGMA foreign_keys is off),  *)
(*     CHECK constraints are.                                              *)
(* Timestamps (date, fecha) and the usuario column are left out: no step   *)
(* reads them.                                                             *)
(***************************************************************************)
EXTENDS Integers, Sequences, FiniteSets, TLC

\* ---------------------------------------------------------------- bounds
\* Calls made in one behaviour, over all clients: under Spec, under SpecDeep
\* (one more, for the races that need a slot filled first), under SpecSeq and
\* under SpecSolo, and under SpecEmpty (the bootstraps count as calls).
MaxCalls == 2
MaxCallsDeep == 3
MaxCallsSeq == 2
MaxCallsSolo == 3
MaxCallsEmpty == 4
MaxCallsFair == 2
MaxCallsType == 3

\* Concurrent clients (UI sessions, API worker threads, callers of database.py).
Procs == {"c1", "c2"}

\* ------------------------------------------------------------ seed data
\* Python's None / SQL NULL.
NULL == "NULL"

\* Mutant of SlotId: f"A-{i}", without the zero padding.
SlotIdUnpadded(i) == "A-" \o ToString(i)

\* f"A-{i:02d}"
SlotId(i) == "A-" \o (IF i < 10 THEN "0" ELSE "") \o ToString(i)

\* The seeded slots: for i in range(1, 21), A-01 .. A-20.
Slots == {SlotId(i) : i \in 1..20}

\* The seeded catalog; the program seeds P001 .. P004, the model the first two.
Products == {"P001", "P002"}

\* What concurrent callers submit: requests the validators of section 4.1
\* would pass to the slot-state rules.
Types == {"Entrada", "Salida"}
SKUs == Products
Quantities == {1}
Positions == {SlotId(1), SlotId(2)}

\* What a single caller submits under SpecSeq: also a type the schema does not
\* know, a SKU with no catalog entry, a position that is no slot, and
\* quantities from 0.
TypesWide == Types \cup {"Ajuste"}
SKUsWide == Products \cup {"P999"}
QuantitiesWide == {0, 1, 2}
PositionsWide == Positions \cup {"Z-99"}

\* What the single caller of SpecSolo submits: one catalog SKU and one that
\* has no entry, one slot and one position that is none, quantities 1 and 2.
SKUsSolo == {"P001", "P999"}
QuantitiesSolo == {1, 2}
PositionsSolo == {SlotId(1), "Z-99"}

\* The arguments of api_register_movement (a MovementRequest) and of
\* register_movement(tipo, sku, qty, position_id).
MovementRequests(ep, types, skus, quantities, positions) ==
    [ep : {ep}, type : types, sku : skus, quantity : quantities,
     position_id : positions]

\* registrar_entrada(sku, ubicacion_id): the movimientos table has no quantity.
EntradaRequests(skus, positions) ==
    [ep : {"entrada"}, type : {"ENTRADA"}, sku : skus, quantity : {1},
     position_id : positions]

\* registrar_salida(ubicacion_id): the caller names no SKU.
SalidaRequests(positions) ==
    [ep : {"salida"}, type : {"SALIDA"}, sku : {NULL}, quantity : {1},
     position_id : positions]

\* ---------------------------------------------------------------- state
VARIABLES
    locations,     \* table locations: position_id -> [status, product_sku]
    movements,     \* table movements, in id order (id = index)
    ubicaciones,   \* table ubicaciones: id -> [estado, sku_producto]
    movimientos,   \* table movimientos, in id order (id = index)
    products,      \* table products: the SKUs of the catalog
    lock,          \* holder of wms.db's write lock: a client, "none", "leaked"
    pc,            \* each client's position in its call
    req,           \* each client's arguments
    sku_anterior,  \* registrar_salida's local: the occupant it read
    txn,           \* each connection's uncommitted view of the tables it wrote
    calls,         \* number of calls started
    before,        \* history: the committed database when the call started
    nret,          \* history: calls that returned since the call started
    last           \* history: the call that returned last, and its result

vars == <<locations, movements, ubicaciones, movimientos, products, lock, pc,
          req, sku_anterior, txn, calls, before, nret, last>>

tables == <<locations, movements, ubicaciones, movimientos, products>>

\* The committed database.
DB ==
    [locations |-> locations, movements |-> movements,
     ubicaciones |-> ubicaciones, movimientos |-> movimientos,
     products |-> products]

NoTxn == [open |-> FALSE, ledger |-> <<>>, registry |-> <<>>]
NoResult == [kind |-> "none", detail |-> ""]
NoSnapshot ==
    [locations |-> <<>>, movements |-> <<>>, ubicaciones |-> <<>>,
     movimientos |-> <<>>, products |-> {}]
NoRequest ==
    [ep |-> "none", type |-> NULL, sku |-> NULL, quantity |-> 0,
     position_id |-> NULL]

\* init_db() of init_db.py: every location 'Libre' with no product; the
\* catalog is the set Products.
SeedLocations == [s \in Slots |-> [status |-> "Libre", product_sku |-> NULL]]

\* crear_ubicaciones_ejemplo() of database.py: estado 'Disponible', no SKU.
SeedUbicaciones ==
    [s \in Slots |-> [estado |-> "Disponible", sku_producto |-> NULL]]

Init ==
    /\ locations = SeedLocations
    /\ movements = <<>>
    /\ ubicaciones = SeedUbicaciones
    /\ movimientos = <<>>
    /\ products = Products
    /\ lock = "none"
    /\ pc = [p \in Procs |-> "idle"]
    /\ req = [p \in Procs |-> NoRequest]
    /\ sku_anterior = [p \in Procs |-> NULL]
    /\ txn = [p \in Procs |-> NoTxn]
    /\ calls = 0
    /\ before = [p \in Procs |-> NoSnapshot]
    /\ nret = [p \in Procs |-> 0]
    /\ last = [req |-> NoRequest, result |-> NoResult, nret |-> 0]

\* The store before any bootstrap: CREATE TABLE IF NOT EXISTS makes the
\* tables, with no row in them.
InitEmpty ==
    /\ locations = <<>>
    /\ movements = <<>>
    /\ ubicaciones = <<>>
    /\ movimientos = <<>>
    /\ products = {}
    /\ lock = "none"
    /\ pc = [p \in Procs |-> "idle"]
    /\ req = [p \in Procs |-> NoRequest]
    /\ sku_anterior = [p \in Procs |-> NULL]
    /\ txn = [p \in Procs |-> NoTxn]
    /\ calls = 0
    /\ before = [p \in Procs |-> NoSnapshot]
    /\ nret = [p \in Procs |-> 0]
    /\ last = [req |-> NoRequest, result |-> NoResult, nret |-> 0]

\* ------------------------------------------------------- call and return
Active == {q \in Procs : pc[q] # "idle"}

\* A client enters an entry point: sqlite3.connect() and cursor().
Begin(p, r, first, max) ==
    /\ pc[p] = "idle"
    /\ calls < max
    /\ calls' = calls + 1
    /\ req' = [req EXCEPT ![p] = r]
    /\ pc' = [pc EXCEPT ![p] = first]
    /\ before' = [before EXCEPT ![p] = DB]
    /\ nret' = [nret EXCEPT ![p] = 0]
    /\ UNCHANGED <<tables, lock, sku_anterior, txn, last>>

\* The call of p goes on at step `label`.
Goto(p, label) ==
    /\ pc' = [pc EXCEPT ![p] = label]
    /\ UNCHANGED <<req, calls, before, nret, last>>

\* The call of p ends with result res. The calls still running have seen one
\* more call return (counted to 2: none, one, several).
Return(p, res) ==
    /\ pc' = [pc EXCEPT ![p] = "idle"]
    /\ req' = [req EXCEPT ![p] = NoRequest]
    /\ before' = [before EXCEPT ![p] = NoSnapshot]
    /\ nret' = [q \in Procs |->
                  IF q = p \/ q \notin Active THEN 0
                  ELSE IF nret[q] < 2 THEN nret[q] + 1 ELSE nret[q]]
    /\ last' = [req |-> req[p], result |-> res, nret |-> nret[p]]
    /\ UNCHANGED calls

At(p, ep, label) == pc[p] = label /\ req[p].ep = ep

\* ------------------------------------------------ tables of init_db.py
\* Mutant of CheckType: the movements table has no CHECK on type.
CheckTypeAny(type) == TRUE

\* movements.type TEXT CHECK(type IN ('Entrada', 'Salida')); NULL passes a CHECK.
CheckType(type) == type = NULL \/ type \in {"Entrada", "Salida"}

\* Mutant of InsertMovement: INSERT OR REPLACE with the id MAX(id), which
\* overwrites the newest record instead of adding one.
InsertMovementReplaceLast(ledger, r) ==
    LET id == IF ledger = <<>> THEN 1 ELSE Len(ledger)
        row == [id |-> id, type |-> r.type, sku |-> r.sku,
                quantity |-> r.quantity, position_id |-> r.position_id]
    IN  IF ledger = <<>> THEN <<row>> ELSE [ledger EXCEPT ![id] = row]

\* INSERT INTO movements (date, type, sku, quantity, position_id): the id is
\* AUTOINCREMENT, one more than the largest id the table ever held.
InsertMovement(ledger, r) ==
    Append(ledger,
           [id |-> Len(ledger) + 1, type |-> r.type, sku |-> r.sku,
            quantity |-> r.quantity, position_id |-> r.position_id])

\* Mutant of UpdateLocation: INSERT OR REPLACE INTO locations, which makes a
\* row for a position that has none.
UpdateLocationUpsert(registry, position_id, status, product_sku) ==
    [s \in DOMAIN registry \cup {position_id} |->
       IF s = position_id
       THEN [status |-> status, product_sku |-> product_sku]
       ELSE registry[s]]

\* Mutant of UpdateLocation: the UPDATE sets the status and forgets the SKU.
UpdateLocationStatusOnly(registry, position_id, status, product_sku) ==
    IF position_id \in DOMAIN registry
    THEN [registry EXCEPT ![position_id].status = status]
    ELSE registry

\* UPDATE locations SET status = ?, product_sku = ? WHERE position_id = ?
\* changes the row of that position, and nothing when there is no such row.
UpdateLocation(registry, position_id, status, product_sku) ==
    IF position_id \in DOMAIN registry
    THEN [registry EXCEPT
            ![position_id] = [status |-> status, product_sku |-> product_sku]]
    ELSE registry

\* Mutant of UpdateForType: the Salida branch is missing.
UpdateForTypeEntradaOnly(registry, r) ==
    IF r.type = "Entrada"
    THEN UpdateLocation(registry, r.position_id, "Ocupada", r.sku)
    ELSE registry

\* The slot update both English entry points issue after the INSERT.
UpdateForType(registry, r) ==
    IF r.type = "Entrada"
    THEN UpdateLocation(registry, r.position_id, "Ocupada", r.sku)
    ELSE IF r.type = "Salida"
    THEN UpdateLocation(registry, r.position_id, "Libre", NULL)
    ELSE registry

\* cursor.execute(sql, params): params is a sequence with one item per "?".
\* A str is a sequence of its characters.
BindingsOK(placeholders, params) == Len(params) = placeholders

\* The first write of a connection: BEGIN, the write lock, then the INSERT.
\* A row the CHECK refuses raises IntegrityError with the transaction open; the
\* handler neither rolls back nor closes, so the lock stays with the
\* unreferenced connection until the collector finalises it.
FirstInsert(p) ==
    /\ lock = "none"
    /\ IF CheckType(req[p].type)
       THEN /\ txn' = [txn EXCEPT ![p] =
                         [open |-> TRUE,
                          ledger |-> InsertMovement(movements, req[p]),
                          registry |-> locations]]
            /\ lock' = p
            /\ Goto(p, "update")
       ELSE /\ lock' = "leaked"
            /\ txn' = txn
            /\ Return(p, [kind |-> "error", detail |-> "IntegrityError"])
    /\ UNCHANGED <<tables, sku_anterior>>

\* The write lock stays with another connection for the whole busy timeout
\* (sqlite3.connect's default, 5 s): OperationalError "database is locked".
InsertLocked(p) ==
    /\ lock \notin {"none", p}
    /\ Return(p, [kind |-> "error", detail |-> "database is locked"])
    /\ UNCHANGED <<tables, lock, sku_anterior, txn>>

\* Mutant of CommitEnglish: each statement commits on its own and the
\* UPDATE is lost, so only the ledger row is published.
CommitLedgerOnly(p, res) ==
    /\ lock = p
    /\ movements' = txn[p].ledger
    /\ lock' = "none"
    /\ txn' = [txn EXCEPT ![p] = NoTxn]
    /\ Return(p, res)
    /\ UNCHANGED <<locations, ubicaciones, movimientos, products,
                   sku_anterior>>

\* conn.commit(): the transaction's view becomes the committed tables.
CommitEnglish(p, res) ==
    /\ lock = p
    /\ movements' = txn[p].ledger
    /\ locations' = txn[p].registry
    /\ lock' = "none"
    /\ txn' = [txn EXCEPT ![p] = NoTxn]
    /\ Return(p, res)
    /\ UNCHANGED <<ubicaciones, movimientos, products, sku_anterior>>

\* Mutant of AbandonTxn: the handler commits what the transaction holds.
AbandonTxnCommits(p, res) ==
    /\ movements' = txn[p].ledger
    /\ locations' = txn[p].registry
    /\ txn' = [txn EXCEPT ![p] = NoTxn]
    /\ lock' = IF lock = p THEN "none" ELSE lock
    /\ Return(p, res)
    /\ UNCHANGED <<ubicaciones, movimientos, products, sku_anterior>>

\* An exception after the first write, handled without rollback() or close():
\* the writes are never committed (finalising the connection rolls them
\* back), and the connection keeps the write lock until it is finalised.
AbandonTxn(p, res) ==
    /\ txn' = [txn EXCEPT ![p] = NoTxn]
    /\ lock' = IF lock = p THEN "leaked" ELSE lock
    /\ Return(p, res)
    /\ UNCHANGED <<tables, sku_anterior>>

\* The collector finalises an abandoned connection: sqlite3_close rolls its
\* transaction back and frees the lock.
CollectGarbage ==
    /\ lock = "leaked"
    /\ lock' = "none"
    /\ UNCHANGED <<tables, pc, req, sku_anterior, txn, calls, before, nret,
                   last>>

\* ------------------------------------- api_register_movement (main.py)
ApiCall(p, requests, max) == \E r \in requests : Begin(p, r, "validate", max)

\* Mutant of ApiValidate: without "except HTTPException: raise" the generic
\* handler turns the 400 of a rejection into a 500.
ApiValidateNoReraise(p) ==
    /\ At(p, "api", "validate")
    /\ LET r == req[p]
           found == r.position_id \in DOMAIN locations
       IN  IF r.type = "Entrada"
           THEN IF ~found \/ locations[r.position_id].status # "Libre"
                THEN Return(p, [kind |-> "error", detail |-> "500"])
                ELSE Goto(p, "insert")
           ELSE IF r.type = "Salida"
           THEN IF ~found \/ locations[r.position_id].product_sku # r.sku
                THEN Return(p, [kind |-> "error", detail |-> "500"])
                ELSE Goto(p, "insert")
           ELSE Goto(p, "insert")
    /\ UNCHANGED <<tables, lock, sku_anterior, txn>>

\* 1. Validation (Basic): HTTPException(400) leaves through "except
\* HTTPException: raise"; no write was issued.
ApiValidate(p) ==
    /\ At(p, "api", "validate")
    /\ LET r == req[p]
           found == r.position_id \in DOMAIN locations
       IN  IF r.type = "Entrada"
           THEN IF ~found \/ locations[r.position_id].status # "Libre"
                THEN Return(p, [kind |-> "rejected",
                                detail |-> "Location is not free"])
                ELSE Goto(p, "insert")
           ELSE IF r.type = "Salida"
           THEN IF ~found \/ locations[r.position_id].product_sku # r.sku
                THEN Return(p, [kind |-> "rejected",
                                detail |-> "Product not at this location"])
                ELSE Goto(p, "insert")
           ELSE Goto(p, "insert")
    /\ UNCHANGED <<tables, lock, sku_anterior, txn>>

\* 2. Insert Movement
ApiInsert(p) == At(p, "api", "insert") /\ FirstInsert(p)

ApiInsertLocked(p) == At(p, "api", "insert") /\ InsertLocked(p)

\* 3. Update Location
ApiUpdate(p) ==
    /\ At(p, "api", "update")
    /\ txn' = [txn EXCEPT
                 ![p].registry = UpdateForType(txn[p].registry, req[p])]
    /\ Goto(p, "commit")
    /\ UNCHANGED <<tables, lock, sku_anterior>>

ApiCommit(p) ==
    /\ At(p, "api", "commit")
    /\ CommitEnglish(p, [kind |-> "ok",
                         detail |-> "Movement registered successfully"])

\* "except Exception": the UPDATE or the commit raised (a storage error);
\* HTTPException(500).
ApiFail(p) ==
    /\ req[p].ep = "api" /\ pc[p] \in {"update", "commit"}
    /\ AbandonTxn(p, [kind |-> "error", detail |-> "500"])

\* --------------------------------------------- register_movement (app.py)
\* No validation: the function starts with the INSERT.
AppCall(p, requests, max) == \E r \in requests : Begin(p, r, "insert", max)

\* 1. Registrar en Historial
AppInsert(p) == At(p, "app", "insert") /\ FirstInsert(p)

AppInsertLocked(p) == At(p, "app", "insert") /\ InsertLocked(p)

\* 2. Actualizar Ubicacion. The Salida branch passes (position_id), which is
\* the string itself, not a 1-tuple: the statement has one placeholder and
\* gets one binding per character.
AppUpdate(p) ==
    /\ At(p, "app", "update")
    /\ IF req[p].type = "Salida" /\ ~BindingsOK(1, req[p].position_id)
       THEN AbandonTxn(p, [kind |-> "error", detail |-> "ProgrammingError"])
       ELSE /\ txn' = [txn EXCEPT
                         ![p].registry = UpdateForType(txn[p].registry, req[p])]
            /\ Goto(p, "commit")
            /\ UNCHANGED <<tables, lock, sku_anterior>>

AppCommit(p) ==
    /\ At(p, "app", "commit")
    /\ CommitEnglish(p, [kind |-> "ok", detail |-> "True"])

\* "except Exception": the UPDATE or the commit raised (a storage error);
\* return False.
AppFail(p) ==
    /\ req[p].ep = "app" /\ pc[p] \in {"update", "commit"}
    /\ AbandonTxn(p, [kind |-> "error", detail |-> "False"])

\* ------------------------------------------------ tables of database.py
\* INSERT INTO movimientos (tipo, sku_producto, ubicacion_id, usuario)
InsertMovimiento(ledger, tipo, sku_producto, ubicacion_id) ==
    Append(ledger,
           [id |-> Len(ledger) + 1, tipo |-> tipo,
            sku_producto |-> sku_producto, ubicacion_id |-> ubicacion_id])

\* Mutant of UpdateUbicacion: the UPDATE has no WHERE clause and writes
\* every row.
UpdateUbicacionNoWhere(registry, id, estado, sku_producto) ==
    [s \in DOMAIN registry |->
        [estado |-> estado, sku_producto |-> sku_producto]]

\* UPDATE ubicaciones SET estado = ?, sku_producto = ? WHERE id = ?
UpdateUbicacion(registry, id, estado, sku_producto) ==
    IF id \in DOMAIN registry
    THEN [registry EXCEPT
            ![id] = [estado |-> estado, sku_producto |-> sku_producto]]
    ELSE registry

\* The first write of a connection of database.py: the UPDATE.
FirstUpdate(p, estado, sku_producto) ==
    /\ lock = "none"
    /\ txn' = [txn EXCEPT ![p] =
                 [open |-> TRUE,
                  ledger |-> movimientos,
                  registry |-> UpdateUbicacion(ubicaciones,
                                               req[p].position_id, estado,
                                               sku_producto)]]
    /\ lock' = p
    /\ Goto(p, "insert")
    /\ UNCHANGED <<tables, sku_anterior>>

\* "except Exception": conn.rollback(), then "finally": conn.close().
Rollback(p, res) ==
    /\ txn' = [txn EXCEPT ![p] = NoTxn]
    /\ lock' = IF lock = p THEN "none" ELSE lock
    /\ sku_anterior' = [sku_anterior EXCEPT ![p] = NULL]
    /\ Return(p, res)
    /\ UNCHANGED tables

CommitSpanish(p, res) ==
    /\ lock = p
    /\ movimientos' = txn[p].ledger
    /\ ubicaciones' = txn[p].registry
    /\ lock' = "none"
    /\ txn' = [txn EXCEPT ![p] = NoTxn]
    /\ sku_anterior' = [sku_anterior EXCEPT ![p] = NULL]
    /\ Return(p, res)
    /\ UNCHANGED <<locations, movements, products>>

\* ------------------------------------------ registrar_entrada (database.py)
EntradaCall(p, requests, max) ==
    \E r \in requests : Begin(p, r, "validate", max)

\* Mutant of EntradaValidate: an Entrada for an occupied slot waits until the
\* slot is free instead of returning its rejection.
EntradaValidateWaits(p) ==
    /\ At(p, "entrada", "validate")
    /\ LET id == req[p].position_id
       IN  IF id \notin DOMAIN ubicaciones
           THEN Return(p, [kind |-> "rejected",
                           detail |-> "Ubicacion no existe."])
           ELSE /\ ubicaciones[id].estado # "Ocupada"
                /\ Goto(p, "update")
    /\ UNCHANGED <<tables, lock, sku_anterior, txn>>

\* Verificar estado actual de la ubicacion
EntradaValidate(p) ==
    /\ At(p, "entrada", "validate")
    /\ LET id == req[p].position_id
       IN  IF id \notin DOMAIN ubicaciones
           THEN Return(p, [kind |-> "rejected",
                           detail |-> "Ubicacion no existe."])
           ELSE IF ubicaciones[id].estado = "Ocupada"
           THEN Return(p, [kind |-> "rejected",
                           detail |-> "La ubicacion ya esta ocupada."])
           ELSE Goto(p, "update")
    /\ UNCHANGED <<tables, lock, sku_anterior, txn>>

\* Actualizar ubicacion
EntradaUpdate(p) ==
    /\ At(p, "entrada", "update")
    /\ FirstUpdate(p, "Ocupada", req[p].sku)

\* The first UPDATE of registrar_entrada or registrar_salida finds the write
\* lock with another connection for the whole busy timeout: "except
\* Exception" rolls back and returns (False, "Error ...").
UpdateLocked(p) ==
    /\ pc[p] = "update" /\ req[p].ep \in {"entrada", "salida"}
    /\ lock \notin {"none", p}
    /\ Rollback(p, [kind |-> "error",
                    detail |-> IF req[p].ep = "entrada"
                               THEN "Error en base de datos" ELSE "Error"])

\* Registrar movimiento
EntradaInsert(p) ==
    /\ At(p, "entrada", "insert")
    /\ txn' = [txn EXCEPT
                 ![p].ledger = InsertMovimiento(txn[p].ledger, "ENTRADA",
                                                req[p].sku,
                                                req[p].position_id)]
    /\ Goto(p, "commit")
    /\ UNCHANGED <<tables, lock, sku_anterior>>

EntradaCommit(p) ==
    /\ At(p, "entrada", "commit")
    /\ CommitSpanish(p, [kind |-> "ok", detail |-> "Entrada exitosa"])

\* The INSERT or the commit raised (a storage error).
EntradaFail(p) ==
    /\ req[p].ep = "entrada" /\ pc[p] \in {"insert", "commit"}
    /\ Rollback(p, [kind |-> "error", detail |-> "Error en base de datos"])

\* ------------------------------------------- registrar_salida (database.py)
SalidaCall(p, requests, max) ==
    \E r \in requests : Begin(p, r, "validate", max)

\* Verificar info actual
SalidaValidate(p) ==
    /\ At(p, "salida", "validate")
    /\ LET id == req[p].position_id
       IN  IF id \notin DOMAIN ubicaciones
           THEN /\ Return(p, [kind |-> "rejected",
                              detail |-> "Ubicacion no existe."])
                /\ UNCHANGED sku_anterior
           ELSE IF ubicaciones[id].estado = "Disponible"
           THEN /\ Return(p, [kind |-> "rejected",
                              detail |-> "La ubicacion ya esta vacia."])
                /\ UNCHANGED sku_anterior
           ELSE /\ sku_anterior' =
                     [sku_anterior EXCEPT ![p] = ubicaciones[id].sku_producto]
                /\ Goto(p, "update")
    /\ UNCHANGED <<tables, lock, txn>>

\* Actualizar ubicacion
SalidaUpdate(p) ==
    /\ At(p, "salida", "update")
    /\ FirstUpdate(p, "Disponible", NULL)

\* Registrar movimiento
SalidaInsert(p) ==
    /\ At(p, "salida", "insert")
    /\ txn' = [txn EXCEPT
                 ![p].ledger = InsertMovimiento(txn[p].ledger, "SALIDA",
                                                sku_anterior[p],
                                                req[p].position_id)]
    /\ Goto(p, "commit")
    /\ UNCHANGED <<tables, lock, sku_anterior>>

SalidaCommit(p) ==
    /\ At(p, "salida", "commit")
    /\ CommitSpanish(p, [kind |-> "ok", detail |-> "Salida exitosa"])

\* The INSERT or the commit raised (a storage error).
SalidaFail(p) ==
    /\ req[p].ep = "salida" /\ pc[p] \in {"insert", "commit"}
    /\ Rollback(p, [kind |-> "error", detail |-> "Error"])

\* ------------------------------------------------- bootstrap, run again
\* The CREATE TABLE IF NOT EXISTS statements of both init_db functions find
\* their tables and change nothing; what is left of a bootstrap on a store
\* that exists is the seeding.
BootRequest(ep) == [NoRequest EXCEPT !.ep = ep]

\* Mutant of SeedIfEmpty: the seed is written without the COUNT(*) guard.
SeedAlways(table, count, seed) == seed

\* "if count == 0:" executemany(INSERT ...) and commit; otherwise "Skipping
\* seed".
SeedIfEmpty(table, count, seed) == IF count = 0 THEN seed ELSE table

\* init_db() of init_db.py.
InitDbCall(p, max) == Begin(p, BootRequest("init_db"), "seed_locations", max)

\* 4. Seed Locations. The INSERT needs the write lock; "database is locked"
\* lands in "except Exception", which prints and returns.
InitDbSeedLocations(p) ==
    /\ At(p, "init_db", "seed_locations")
    /\ LET count == Cardinality(DOMAIN locations)
       IN  IF count = 0 /\ lock # "none"
           THEN /\ Return(p, [kind |-> "error",
                              detail |-> "database is locked"])
                /\ UNCHANGED locations
           ELSE /\ locations' = SeedIfEmpty(locations, count, SeedLocations)
                /\ Goto(p, "seed_products")
    /\ UNCHANGED <<movements, ubicaciones, movimientos, products, lock,
                   sku_anterior, txn>>

\* Seed some dummy products, then conn.close().
InitDbSeedProducts(p) ==
    /\ At(p, "init_db", "seed_products")
    /\ LET prod_count == Cardinality(products)
       IN  IF prod_count = 0 /\ lock # "none"
           THEN /\ Return(p, [kind |-> "error",
                              detail |-> "database is locked"])
                /\ UNCHANGED products
           ELSE /\ products' = SeedIfEmpty(products, prod_count, Products)
                /\ Return(p, [kind |-> "ok",
                              detail |-> "Database initialization complete."])
    /\ UNCHANGED <<locations, movements, ubicaciones, movimientos, lock,
                   sku_anterior, txn>>

\* Mutant of InsertUbicacion: INSERT OR REPLACE, which resets a row that is
\* already there.
InsertOrReplaceUbicacion(registry, id) ==
    [i \in DOMAIN registry \cup {id} |->
       IF i = id THEN [estado |-> "Disponible", sku_producto |-> NULL]
       ELSE registry[i]]

\* INSERT INTO ubicaciones (id, estado) VALUES (?, 'Disponible'), with
\* "except sqlite3.IntegrityError: pass" for an id that is already there.
InsertUbicacion(registry, id) ==
    IF id \in DOMAIN registry
    THEN registry
    ELSE [i \in DOMAIN registry \cup {id} |->
            IF i = id THEN [estado |-> "Disponible", sku_producto |-> NULL]
            ELSE registry[i]]

\* for i in range(1, cantidad + 1)
RECURSIVE CrearLoop(_, _, _)
CrearLoop(registry, i, cantidad) ==
    IF i > cantidad THEN registry
    ELSE CrearLoop(InsertUbicacion(registry, SlotId(i)), i + 1, cantidad)

\* crear_ubicaciones_ejemplo() of database.py, with its default cantidad=20.
CrearCall(p, max) ==
    Begin(p, BootRequest("crear_ubicaciones_ejemplo"), "insert", max)

\* The loop of INSERTs: the first one opens the transaction and takes the
\* write lock, also when it ends in IntegrityError.
CrearInsert(p) ==
    /\ At(p, "crear_ubicaciones_ejemplo", "insert")
    /\ lock = "none"
    /\ txn' = [txn EXCEPT ![p] =
                 [open |-> TRUE,
                  ledger |-> movimientos,
                  registry |-> CrearLoop(ubicaciones, 1, 20)]]
    /\ lock' = p
    /\ Goto(p, "commit")
    /\ UNCHANGED <<tables, sku_anterior>>

\* "database is locked" is no IntegrityError: it leaves the function.
CrearLocked(p) ==
    /\ At(p, "crear_ubicaciones_ejemplo", "insert")
    /\ lock \notin {"none", p}
    /\ Return(p, [kind |-> "error", detail |-> "database is locked"])
    /\ UNCHANGED <<tables, lock, sku_anterior, txn>>

\* conn.commit(); conn.close()
CrearCommit(p) ==
    /\ At(p, "crear_ubicaciones_ejemplo", "commit")
    /\ CommitSpanish(p, [kind |-> "ok", detail |-> "None"])

\* ------------------------------------------------ get_inventory (app.py)
\* SUM(CASE WHEN m.type='Entrada' THEN m.quantity WHEN m.type='Salida' THEN
\* -m.quantity ELSE 0 END) over the movements of one SKU.
\* Mutant of TotalQuantity: the Salida branch adds the quantity.
RECURSIVE TotalQuantityUnsigned(_, _)
TotalQuantityUnsigned(ledger, sku) ==
    IF ledger = <<>> THEN 0
    ELSE LET m == Head(ledger)
         IN  (IF m.sku = sku /\ m.type \in {"Entrada", "Salida"}
              THEN m.quantity ELSE 0)
             + TotalQuantityUnsigned(Tail(ledger), sku)

RECURSIVE TotalQuantity(_, _)
TotalQuantity(ledger, sku) ==
    IF ledger = <<>> THEN 0
    ELSE LET m == Head(ledger)
             signed == IF m.sku # sku THEN 0
                       ELSE IF m.type = "Entrada" THEN m.quantity
                       ELSE IF m.type = "Salida" THEN 0 - m.quantity
                       ELSE 0
         IN  signed + TotalQuantity(Tail(ledger), sku)

\* FROM products p LEFT JOIN movements m ON p.sku = m.sku GROUP BY p.sku: one
\* row per catalog product, COALESCE(SUM(...), 0) for one with no movement.
get_inventory == [sku \in products |-> TotalQuantity(movements, sku)]

\* SELECT position_id FROM locations WHERE status = 'Libre'
get_free_locations ==
    {s \in DOMAIN locations : locations[s].status = "Libre"}

\* SELECT position_id FROM locations WHERE status = 'Ocupada' AND
\* product_sku = ?
get_occupied_locations_by_sku(sku) ==
    {s \in DOMAIN locations :
       locations[s].status = "Ocupada" /\ locations[s].product_sku = sku}

\* -------------------------------------------------------- specifications
\* The steps of a running call.
Step(p) ==
    \/ ApiValidate(p) \/ ApiInsert(p) \/ ApiInsertLocked(p)
    \/ ApiUpdate(p) \/ ApiCommit(p) \/ ApiFail(p)
    \/ AppInsert(p) \/ AppInsertLocked(p)
    \/ AppUpdate(p) \/ AppCommit(p) \/ AppFail(p)
    \/ EntradaValidate(p) \/ EntradaUpdate(p)
    \/ EntradaInsert(p) \/ EntradaCommit(p) \/ EntradaFail(p)
    \/ SalidaValidate(p) \/ SalidaUpdate(p)
    \/ SalidaInsert(p) \/ SalidaCommit(p) \/ SalidaFail(p)
    \/ UpdateLocked(p)

\* A client starts a call, at most max calls in all.
Call(p, max) ==
    \/ ApiCall(p, MovementRequests("api", Types, SKUs, Quantities, Positions),
               max)
    \/ AppCall(p, MovementRequests("app", Types, SKUs, Quantities, Positions),
               max)
    \/ EntradaCall(p, EntradaRequests(SKUs, Positions), max)
    \/ SalidaCall(p, SalidaRequests(Positions), max)

\* A client starts a call with any arguments, when no call is running.
CallSeq(p) ==
    /\ Active = {}
    /\ \/ ApiCall(p, MovementRequests("api", TypesWide, SKUsWide,
                                      QuantitiesWide, PositionsWide),
                  MaxCallsSeq)
       \/ AppCall(p, MovementRequests("app", TypesWide, SKUsWide,
                                      QuantitiesWide, PositionsWide),
                  MaxCallsSeq)
       \/ EntradaCall(p, EntradaRequests(SKUsWide, PositionsWide), MaxCallsSeq)
       \/ SalidaCall(p, SalidaRequests(PositionsWide), MaxCallsSeq)

\* The steps of a running bootstrap.
StepBoot(p) ==
    \/ InitDbSeedLocations(p) \/ InitDbSeedProducts(p)
    \/ CrearInsert(p) \/ CrearLocked(p) \/ CrearCommit(p)

\* One client that submits movements, also for a SKU with no catalog entry,
\* for a position that is no slot and for more than was put in, and runs the
\* bootstrap again.
CallSolo(p) ==
    \/ ApiCall(p, MovementRequests("api", Types, SKUsSolo, QuantitiesSolo,
                                   PositionsSolo),
               MaxCallsSolo)
    \/ AppCall(p, MovementRequests("app", Types, SKUsSolo, QuantitiesSolo,
                                   PositionsSolo),
               MaxCallsSolo)
    \/ EntradaCall(p, EntradaRequests(SKUsSolo, PositionsSolo), MaxCallsSolo)
    \/ SalidaCall(p, SalidaRequests(PositionsSolo), MaxCallsSolo)
    \/ InitDbCall(p, MaxCallsSolo)
    \/ CrearCall(p, MaxCallsSolo)

\* Concurrent clients, MaxCalls calls.
Next == CollectGarbage \/ \E p \in Procs : Call(p, MaxCalls) \/ Step(p)

Spec == Init /\ [][Next]_vars

\* Two clients and every submit entry point, on one slot and one product.
CallFair(p) ==
    \/ ApiCall(p, MovementRequests("api", Types, {"P001"}, Quantities,
                                   {SlotId(1)}), MaxCallsFair)
    \/ AppCall(p, MovementRequests("app", Types, {"P001"}, Quantities,
                                   {SlotId(1)}), MaxCallsFair)
    \/ EntradaCall(p, EntradaRequests({"P001"}, {SlotId(1)}), MaxCallsFair)
    \/ SalidaCall(p, SalidaRequests({SlotId(1)}), MaxCallsFair)

NextFair == CollectGarbage \/ \E p \in Procs : CallFair(p) \/ Step(p)

\* The thread that runs a call keeps running it: no entry point has a loop,
\* and the only wait, for the write lock, ends with the busy timeout of
\* sqlite3.connect. Nothing makes the collector run, so it has no fairness.
SpecFair == Init /\ [][NextFair]_vars /\ \A p \in Procs : WF_vars(Step(p))

\* The steps of a running call of api_register_movement.
StepApi(p) ==
    \/ ApiValidate(p) \/ ApiInsert(p) \/ ApiInsertLocked(p)
    \/ ApiUpdate(p) \/ ApiCommit(p) \/ ApiFail(p)

\* Two clients of api_register_movement, whose type is any string.
NextType ==
    \/ CollectGarbage
    \/ \E p \in Procs :
          \/ ApiCall(p, MovementRequests("api", TypesWide, {"P001"},
                                         Quantities, {SlotId(1)}),
                     MaxCallsType)
          \/ StepApi(p)

SpecType == Init /\ [][NextType]_vars

\* Concurrent clients, MaxCallsDeep calls.
NextDeep == CollectGarbage \/ \E p \in Procs : Call(p, MaxCallsDeep) \/ Step(p)

SpecDeep == Init /\ [][NextDeep]_vars

\* One client, one call at a time, any arguments.
NextSeq == CollectGarbage \/ \E p \in {"c1"} : CallSeq(p) \/ Step(p)

SpecSeq == Init /\ [][NextSeq]_vars

\* One client that starts on the empty store: the bootstraps, and movements
\* once the bootstrap of their tables has run (check_database_ready of
\* app.py and startup_event of main.py run init_db before any movement).
CallEmpty(p) ==
    \/ InitDbCall(p, MaxCallsEmpty)
    \/ CrearCall(p, MaxCallsEmpty)
    \/ /\ DOMAIN locations # {}
       /\ \/ ApiCall(p, MovementRequests("api", Types, SKUsSolo,
                                          QuantitiesSolo, PositionsSolo),
                      MaxCallsEmpty)
          \/ AppCall(p, MovementRequests("app", Types, SKUsSolo,
                                          QuantitiesSolo, PositionsSolo),
                      MaxCallsEmpty)
    \/ /\ DOMAIN ubicaciones # {}
       /\ \/ EntradaCall(p, EntradaRequests(SKUsSolo, PositionsSolo),
                          MaxCallsEmpty)
          \/ SalidaCall(p, SalidaRequests(PositionsSolo), MaxCallsEmpty)

\* One client, movements and bootstraps.
NextSolo ==
    CollectGarbage \/ \E p \in {"c1"} : CallSolo(p) \/ Step(p) \/ StepBoot(p)

SpecSolo == Init /\ [][NextSolo]_vars

\* One client, from the empty store.
NextEmpty ==
    CollectGarbage \/ \E p \in {"c1"} : CallEmpty(p) \/ Step(p) \/ StepBoot(p)

SpecEmpty == InitEmpty /\ [][NextEmpty]_vars

\* ------------------------------------------------------------ observers
\* The step in which the call of p returns; last' then holds its arguments
\* and its result.
Returned(p) == pc[p] # "idle" /\ pc'[p] = "idle"

\* The committed database after the step.
DBAfter ==
    [locations |-> locations', movements |-> movements',
     ubicaciones |-> ubicaciones', movimientos |-> movimientos',
     products |-> products']

IsEnglish(ep) == ep \in {"api", "app"}
Inbound(r) == r.type \in {"Entrada", "ENTRADA"}
Outbound(r) == r.type \in {"Salida", "SALIDA"}

\* Slot `id` in database db, read through the schema entry point ep writes:
\* whether it exists, whether it is Free, and its occupant.
SlotIn(db, ep, id) ==
    IF IsEnglish(ep)
    THEN IF id \in DOMAIN db.locations
         THEN [exists |-> TRUE, free |-> db.locations[id].status = "Libre",
               sku |-> db.locations[id].product_sku]
         ELSE [exists |-> FALSE, free |-> FALSE, sku |-> NULL]
    ELSE IF id \in DOMAIN db.ubicaciones
         THEN [exists |-> TRUE,
               free |-> db.ubicaciones[id].estado = "Disponible",
               sku |-> db.ubicaciones[id].sku_producto]
         ELSE [exists |-> FALSE, free |-> FALSE, sku |-> NULL]

\* Replaying the entries of one slot, in identifier order, from Free.
RECURSIVE FoldMovements(_, _, _)
FoldMovements(ledger, position_id, state) ==
    IF ledger = <<>> THEN state
    ELSE LET m == Head(ledger)
             next == IF m.position_id # position_id THEN state
                     ELSE IF m.type = "Entrada"
                     THEN [status |-> "Ocupada", product_sku |-> m.sku]
                     ELSE IF m.type = "Salida"
                     THEN [status |-> "Libre", product_sku |-> NULL]
                     ELSE state
         IN  FoldMovements(Tail(ledger), position_id, next)

RECURSIVE FoldMovimientos(_, _, _)
FoldMovimientos(ledger, id, state) ==
    IF ledger = <<>> THEN state
    ELSE LET m == Head(ledger)
             next == IF m.ubicacion_id # id THEN state
                     ELSE IF m.tipo = "ENTRADA"
                     THEN [estado |-> "Ocupada",
                           sku_producto |-> m.sku_producto]
                     ELSE IF m.tipo = "SALIDA"
                     THEN [estado |-> "Disponible", sku_producto |-> NULL]
                     ELSE state
         IN  FoldMovimientos(Tail(ledger), id, next)

\* --------------------------------------------------------------- claims
\* C3: in every reachable state, for every slot, folding the ledger entries
\* of that slot in identifier order from Free (Inbound(sku) gives
\* Occupied(sku), Outbound gives Free) yields the slot's stored status and
\* occupant.
C3_LedgerFoldIsRegistry ==
    /\ \A s \in DOMAIN locations :
         FoldMovements(movements, s,
                       [status |-> "Libre", product_sku |-> NULL])
           = locations[s]
    /\ \A s \in DOMAIN ubicaciones :
         FoldMovimientos(movimientos, s,
                         [estado |-> "Disponible", sku_producto |-> NULL])
           = ubicaciones[s]

\* Two entries on one slot, the second an Inbound that replaced the occupant
\* of the first: the fold and the registry both went through two states.
C3_Witness ==
    /\ Len(movements) = 2
    /\ movements[1].position_id = movements[2].position_id
    /\ movements[1].type = "Entrada" /\ movements[2].type = "Entrada"
    /\ movements[1].sku # movements[2].sku
    /\ locations[movements[2].position_id].product_sku = movements[2].sku

\* C7: in every reachable state every slot is Occupied exactly when an
\* occupant SKU is set, and Free exactly when it is absent.
C7_StatusIffOccupant ==
    /\ \A s \in DOMAIN locations :
         /\ locations[s].status \in {"Libre", "Ocupada"}
         /\ locations[s].status = "Ocupada" <=> locations[s].product_sku # NULL
         /\ locations[s].status = "Libre" <=> locations[s].product_sku = NULL
    /\ \A s \in DOMAIN ubicaciones :
         /\ ubicaciones[s].estado \in {"Disponible", "Ocupada"}
         /\ ubicaciones[s].estado = "Ocupada"
              <=> ubicaciones[s].sku_producto # NULL
         /\ ubicaciones[s].estado = "Disponible"
              <=> ubicaciones[s].sku_producto = NULL

\* A slot that was filled and then emptied again, beside one never used.
C7_Witness ==
    \E s \in DOMAIN locations :
       /\ locations[s] = [status |-> "Libre", product_sku |-> NULL]
       /\ Len(movements) = 2
       /\ movements[1].position_id = s /\ movements[1].type = "Entrada"
       /\ movements[2].position_id = s /\ movements[2].type = "Salida"

\* What a call publishes when it commits both of its writes on database db;
\* read is the occupant registrar_salida read during its validation.
BothWritesOf(db, r, read) ==
    IF IsEnglish(r.ep)
    THEN [db EXCEPT
            !.movements = InsertMovement(db.movements, r),
            !.locations = UpdateForType(db.locations, r)]
    ELSE [db EXCEPT
            !.movimientos =
                InsertMovimiento(db.movimientos, r.type,
                                 IF Inbound(r) THEN r.sku ELSE read,
                                 r.position_id),
            !.ubicaciones =
                UpdateUbicacion(db.ubicaciones, r.position_id,
                                IF Inbound(r) THEN "Ocupada" ELSE "Disponible",
                                IF Inbound(r) THEN r.sku ELSE NULL)]

\* The same for a call that runs alone: it read the occupant from db itself.
BothWrites(db, r) ==
    BothWritesOf(db, r, IF r.position_id \in DOMAIN db.ubicaciones
                        THEN db.ubicaciones[r.position_id].sku_producto
                        ELSE NULL)

\* C5: a call that returns after it issued a write either publishes both of
\* its writes and reports success, or publishes nothing and reports a
\* failure: then the tables are those of the step before, the connection
\* keeps no transaction that could still be committed, and, when no other
\* call returned meanwhile, the database is the one the call started from.
C5_FailedWriteRollsBack ==
    [][\A p \in Procs :
         (Returned(p) /\ txn[p].open) =>
            IF DBAfter # DB
            THEN /\ last'.result.kind = "ok"
                 /\ lock = p
                 /\ pc[p] = "commit"
                 /\ DBAfter = BothWritesOf(DB, req[p], sku_anterior[p])
            ELSE /\ last'.result.kind = "error"
                 /\ ~txn'[p].open
                 /\ lock' # p
                 /\ nret[p] = 0 => DBAfter = before[p]]_vars

\* register_movement's Salida: the INSERT was issued, the UPDATE raised, the
\* call returned False, and the slot it should have freed is still occupied
\* with no Salida in the ledger.
C5_Witness ==
    /\ last.req.ep = "app" /\ last.req.type = "Salida"
    /\ last.result = [kind |-> "error", detail |-> "ProgrammingError"]
    /\ locations[last.req.position_id].status = "Ocupada"
    /\ Len(movements) = 1 /\ movements[1].type = "Entrada"
    /\ \A p \in Procs : ~txn[p].open

\* C6: a call that returns from its validation step returns a rejection, not
\* an error, and wrote nothing: it issued no write, holds no lock, the step
\* changes no table, and, when no other call returned meanwhile, the database
\* is the one the call started from.
C6_RejectionWritesNothing ==
    [][\A p \in Procs :
         (Returned(p) /\ pc[p] = "validate") =>
            /\ last'.result.kind = "rejected"
            /\ ~txn[p].open /\ ~txn'[p].open
            /\ lock # p /\ lock' = lock
            /\ DBAfter = DB
            /\ nret[p] = 0 => DBAfter = before[p]]_vars

\* An Inbound to an occupied slot was rejected by api_register_movement with
\* the slot and the ledger as the accepted Inbound before it left them.
C6_Witness ==
    /\ last.req.ep = "api" /\ last.req.type = "Entrada"
    /\ last.result = [kind |-> "rejected", detail |-> "Location is not free"]
    /\ Len(movements) = 1
    /\ movements[1].position_id = last.req.position_id
    /\ locations[last.req.position_id] =
         [status |-> "Ocupada", product_sku |-> movements[1].sku]

\* C8: a call that reports success has published its movement: an accepted
\* Inbound(sku, slot) leaves the slot Occupied with occupant sku, an accepted
\* Outbound leaves it Free with no occupant; and the tables change in no
\* step but the return of a call that reports success.
C8_AcceptedMovementSetsSlot ==
    [][(\A p \in Procs :
          (Returned(p) /\ last'.result.kind = "ok") =>
             LET r == req[p]
                 slot == SlotIn(DBAfter, r.ep, r.position_id)
             IN  /\ DBAfter # DB
                 /\ slot.exists /\ Inbound(r) =>
                      ~slot.free /\ slot.sku = r.sku
                 /\ slot.exists /\ Outbound(r) =>
                      slot.free /\ slot.sku = NULL)
       /\ (DBAfter # DB =>
             \E q \in Procs : Returned(q) /\ last'.result.kind = "ok")]_vars

\* api_register_movement accepted an Outbound of the SKU an earlier Inbound
\* had put in the slot, and the slot is Free again.
C8_Witness ==
    /\ last.req.ep = "api" /\ last.req.type = "Salida"
    /\ last.result.kind = "ok"
    /\ Len(movements) = 2
    /\ movements[1].type = "Entrada" /\ movements[2].type = "Salida"
    /\ movements[1].sku = last.req.sku
    /\ locations[last.req.position_id] =
         [status |-> "Libre", product_sku |-> NULL]

\* A call that ran with exactly one other call: that call returned while p
\* was running, nothing else returned during either, so both started from
\* the database before[p].
PairedWithLast(p) == Returned(p) /\ nret[p] = 1 /\ last.nret = 0

\* C1: two concurrent Inbound submits (api_register_movement, or
\* registrar_entrada) on the same slot, Free when they started, end with
\* exactly one accepted and the other rejected as occupied, never both
\* accepted. (A submit that ended in a storage error is left aside: the
\* claim is about the two validation outcomes.)
C1_OneInboundWins ==
    [][\A p \in Procs :
         (/\ PairedWithLast(p)
          /\ req[p].ep \in {"api", "entrada"} /\ last.req.ep = req[p].ep
          /\ Inbound(req[p]) /\ Inbound(last.req)
          /\ last.req.position_id = req[p].position_id
          /\ SlotIn(before[p], req[p].ep, req[p].position_id).free) =>
            LET kinds == {last.result.kind, last'.result.kind}
            IN  /\ ~(last.result.kind = "ok" /\ last'.result.kind = "ok")
                /\ "error" \notin kinds => kinds = {"ok", "rejected"}]_vars

\* What entry point r.ep does with r on database db when nothing runs beside
\* it and no storage error occurs: the result and the database after it.
Serial(db, r) ==
    LET slot == SlotIn(db, r.ep, r.position_id)
        accept == [kind |-> "ok", db |-> BothWrites(db, r)]
        reject == [kind |-> "rejected", db |-> db]
        error == [kind |-> "error", db |-> db]
    IN  IF r.ep = "api"
        THEN IF r.type = "Entrada" /\ (~slot.exists \/ ~slot.free) THEN reject
             ELSE IF r.type = "Salida" /\ (~slot.exists \/ slot.sku # r.sku)
             THEN reject
             ELSE IF ~CheckType(r.type) THEN error
             ELSE accept
        ELSE IF r.ep = "app"
        THEN IF ~CheckType(r.type) THEN error
             ELSE IF r.type = "Salida" /\ ~BindingsOK(1, r.position_id)
             THEN error
             ELSE accept
        ELSE IF r.ep = "entrada"
        THEN IF ~slot.exists \/ ~slot.free THEN reject ELSE accept
        ELSE IF ~slot.exists \/ slot.free THEN reject ELSE accept

\* The results and the final database of running r1 and then r2 from db.
SerialPair(db, r1, r2) ==
    LET s1 == Serial(db, r1)
        s2 == Serial(s1.db, r2)
    IN  [first |-> s1.kind, second |-> s2.kind, db |-> s2.db]

\* C2: two concurrent submits on the same slot, at least one of them an
\* Outbound, end with the results and the final ledger and slot state of
\* running the two one after the other in some order; so two concurrent
\* Outbounds of one occupant are never both accepted. (Two Inbounds are C1's
\* case; submits that ended in a storage error are left aside.)
C2_SerialOutcome ==
    [][\A p \in Procs :
         (/\ PairedWithLast(p)
          /\ IsEnglish(req[p].ep) = IsEnglish(last.req.ep)
          /\ last.req.position_id = req[p].position_id
          /\ Outbound(req[p]) \/ Outbound(last.req)
          /\ last.result.kind # "error" /\ last'.result.kind # "error") =>
            \/ SerialPair(before[p], last.req, req[p]) =
                 [first |-> last.result.kind, second |-> last'.result.kind,
                  db |-> DBAfter]
            \/ SerialPair(before[p], req[p], last.req) =
                 [first |-> last'.result.kind, second |-> last.result.kind,
                  db |-> DBAfter]]_vars

\* C4: the ledger-derived stock of every SKU, as get_inventory computes it,
\* is never below 0.
C4_StockNotNegative == \A sku \in DOMAIN get_inventory : get_inventory[sku] >= 0

\* C9: an Inbound submit, through any entry point, is accepted only when the
\* slot is Free at the time of the write; to an Occupied slot it is not
\* accepted and the slot keeps its status and occupant.
C9_InboundOnlyToFreeSlot ==
    [][\A p \in Procs :
         LET r == req[p]
             slot == SlotIn(DB, r.ep, r.position_id)
         IN  (Returned(p) /\ Inbound(r) /\ slot.exists /\ ~slot.free) =>
                /\ last'.result.kind # "ok"
                /\ SlotIn(DBAfter, r.ep, r.position_id) = slot]_vars

\* C10: an Outbound submit (sku, slot) is accepted only when the slot is
\* Occupied by the requested SKU (registrar_salida takes no SKU: by any);
\* to a slot that is Free or holds another SKU it is not accepted and the
\* slot keeps its status and occupant.
C10_OutboundOnlyOfOccupant ==
    [][\A p \in Procs :
         LET r == req[p]
             slot == SlotIn(DB, r.ep, r.position_id)
         IN  (/\ Returned(p) /\ Outbound(r) /\ slot.exists
              /\ slot.free \/ (r.ep # "salida" /\ slot.sku # r.sku)) =>
                /\ last'.result.kind # "ok"
                /\ SlotIn(DBAfter, r.ep, r.position_id) = slot]_vars

\* The call ended in a storage failure its arguments did not cause (the write
\* lock was taken, or a statement or the commit failed): the except branches.
Fault(res) ==
    res.kind = "error" /\ res.detail \notin {"ProgrammingError", "IntegrityError"}

\* C11: a submit whose SKU has no catalog entry is not accepted, whatever the
\* slot state, and writes nothing: no movement with that SKU reaches the
\* ledger and no slot becomes occupied by it. (Calls that ended in a storage
\* failure are left aside, here and below.)
C11_UnknownProductRejected ==
    [][\A p \in Procs :
         (/\ Returned(p)
          /\ Inbound(req[p]) \/ Outbound(req[p])
          /\ req[p].ep # "salida"
          /\ req[p].sku \notin Products
          /\ ~Fault(last'.result)) =>
            /\ last'.result.kind # "ok"
            /\ DBAfter = DB]_vars

\* C12: a submit whose slot identifier names no slot is rejected, with a
\* reason that is not the one given for an occupied slot or for a product
\* that is not at the slot, and no movement for that identifier reaches the
\* ledger.
C12_UnknownSlotRejected ==
    [][\A p \in Procs :
         (/\ Returned(p)
          /\ Inbound(req[p]) \/ Outbound(req[p])
          /\ ~SlotIn(DB, req[p].ep, req[p].position_id).exists
          /\ ~Fault(last'.result)) =>
            /\ last'.result.kind = "rejected"
            /\ last'.result.detail \notin
                 {"Location is not free", "Product not at this location",
                  "La ubicacion ya esta ocupada.",
                  "La ubicacion ya esta vacia."}
            /\ DBAfter = DB]_vars

\* C13: a submit whose quantity is zero or negative is not accepted, and every
\* movement in the ledger has a quantity of at least 1.
C13_QuantityPositive ==
    [][/\ \A p \in Procs :
            (/\ Returned(p)
             /\ IsEnglish(req[p].ep)
             /\ Inbound(req[p]) \/ Outbound(req[p])
             /\ req[p].quantity < 1
             /\ ~Fault(last'.result)) =>
               last'.result.kind # "ok" /\ DBAfter = DB
       /\ \A i \in DOMAIN movements' : movements'[i].quantity >= 1]_vars

\* C14: through api_register_movement or register_movement, with a catalog
\* SKU and a quantity of at least 1: an Inbound to a Free slot is accepted, takes the slot out of
\* get_free_locations and raises the SKU's stock by the quantity; the
\* Outbound of the same SKU, slot and quantity submitted right after it is
\* accepted too, puts the slot back and lowers the stock by the quantity, so
\* that both are back to their values before the pair.
C14_InboundThenOutbound ==
    [][\A p \in Procs :
         LET r == req[p]
             s == r.position_id
             slot == SlotIn(DB, r.ep, s)
         IN  (/\ Returned(p)
              /\ IsEnglish(r.ep)
              /\ r.sku \in Products /\ r.quantity >= 1 /\ slot.exists
              /\ ~Fault(last'.result)) =>
                /\ (Inbound(r) /\ slot.free) =>
                      /\ last'.result.kind = "ok"
                      /\ get_free_locations' = get_free_locations \ {s}
                      /\ get_inventory'[r.sku] =
                           get_inventory[r.sku] + r.quantity
                /\ (/\ Outbound(r)
                    /\ last.result.kind = "ok"
                    /\ last.req = [r EXCEPT !.type = "Entrada"]) =>
                      /\ last'.result.kind = "ok"
                      /\ s \notin get_free_locations
                      /\ get_free_locations' = get_free_locations \cup {s}
                      /\ get_inventory'[r.sku] =
                           get_inventory[r.sku] - r.quantity]_vars

\* C19: a request that violates more than one validation rule is rejected
\* with the reason of the first violated rule in the order quantity,
\* product, slot existence, slot state.
C19_FirstViolatedRule ==
    [][\A p \in Procs :
         LET r == req[p]
             slot == SlotIn(DB, r.ep, r.position_id)
             badQuantity == r.quantity < 1
             badProduct == r.ep # "salida" /\ r.sku \notin Products
             badSlot == ~slot.exists
             badState ==
                 /\ slot.exists
                 /\ IF Inbound(r) THEN ~slot.free
                    ELSE slot.free \/ (r.ep # "salida" /\ slot.sku # r.sku)
             violated ==
                 {i \in 1..4 : <<badQuantity, badProduct, badSlot,
                                 badState>>[i]}
             expected ==
                 IF badQuantity THEN "InvalidQuantity"
                 ELSE IF badProduct THEN "UnknownProduct"
                 ELSE IF badSlot THEN "UnknownSlot"
                 ELSE IF Inbound(r) THEN "SlotOccupied"
                 ELSE "ProductNotAtSlot"
             detail == last'.result.detail
             reason ==
                 IF detail = "Ubicacion no existe." THEN "UnknownSlot"
                 ELSE IF detail \in {"Location is not free",
                                     "La ubicacion ya esta ocupada."}
                 THEN "SlotOccupied"
                 ELSE IF detail \in {"Product not at this location",
                                     "La ubicacion ya esta vacia."}
                 THEN "ProductNotAtSlot"
                 ELSE "none"
         IN  (/\ Returned(p)
              /\ Inbound(r) \/ Outbound(r)
              /\ Cardinality(violated) >= 2
              /\ ~Fault(last'.result)) =>
                /\ last'.result.kind = "rejected"
                /\ reason = expected]_vars

\* C20: the ledger-derived stock and the slot occupancy agree for every
\* catalog SKU: the stock is 0 when no slot is occupied by the SKU and
\* greater than 0 when at least one slot is.
C20_StockAgreesWithOccupancy ==
    \A sku \in DOMAIN get_inventory :
       IF get_occupied_locations_by_sku(sku) = {}
       THEN get_inventory[sku] = 0
       ELSE get_inventory[sku] > 0

\* C15: a bootstrap (init_db, crear_ubicaciones_ejemplo) that runs on the
\* seeded store, also after movements have changed slot states, changes
\* nothing in any of its steps: the slots, each slot's status and occupant,
\* the catalog and the ledgers stay as they were, and, when no other call
\* returned meanwhile, the database at its end is the one it started from.
C15_BootstrapIdempotent ==
    [][\A p \in Procs :
         (/\ req[p].ep \in {"init_db", "crear_ubicaciones_ejemplo"}
          /\ pc'[p] # pc[p]) =>
            /\ DBAfter = DB
            /\ (Returned(p) /\ nret[p] = 0) => DBAfter = before[p]]_vars

\* crear_ubicaciones_ejemplo ran to its commit on a store in which a slot is
\* occupied.
C15_Witness ==
    /\ last.req.ep = "crear_ubicaciones_ejemplo"
    /\ last.result.kind = "ok"
    /\ \E s \in DOMAIN ubicaciones :
          /\ ubicaciones[s].estado = "Ocupada"
          /\ ubicaciones[s].sku_producto # NULL

\* C16: get_inventory has exactly one entry per catalog product, whose value
\* is the sum of the SKU's Inbound quantities minus the sum of its Outbound
\* quantities in the ledger: 0 without movements, negative when more went
\* out than came in, and no entry for a SKU that is only in the ledger.
C16_InventoryIsLedgerSum ==
    LET n == Len(movements)
        Sum[i \in 0..n, type \in Types, sku \in products] ==
            IF i = 0 THEN 0
            ELSE Sum[i - 1, type, sku]
                 + (IF movements[i].type = type /\ movements[i].sku = sku
                    THEN movements[i].quantity ELSE 0)
    IN  /\ DOMAIN get_inventory = products
        /\ \A sku \in products :
              get_inventory[sku] =
                 Sum[n, "Entrada", sku] - Sum[n, "Salida", sku]

\* More of P001 went out than came in, P002 never moved, and the ledger has
\* a movement of P999, which is not in the catalog.
C16_Witness ==
    /\ get_inventory["P001"] < 0
    /\ get_inventory["P002"] = 0
    /\ \E i \in DOMAIN movements : movements[i].sku = "P999"
    /\ "P999" \notin DOMAIN get_inventory

\* C17: the ledgers are append-only. A step keeps every record that is in a
\* ledger, in place and unchanged; the only step that adds to a ledger is the
\* return of an accepted movement, which appends exactly one record, to the
\* ledger of its entry point, with an identifier greater than every
\* identifier in it; a call that returns anything else appends nothing.
C17_LedgerAppendOnly ==
    [][LET Appended(old, new) ==
               /\ Len(new) = Len(old) + 1
               /\ SubSeq(new, 1, Len(old)) = old
               /\ \A j \in DOMAIN old : new[Len(new)].id > old[j].id
       IN  /\ movements' = movements \/ Appended(movements, movements')
           /\ movimientos' = movimientos
                \/ Appended(movimientos, movimientos')
           /\ \A p \in Procs :
                 Returned(p) =>
                    IF /\ last'.result.kind = "ok"
                       /\ Inbound(req[p]) \/ Outbound(req[p])
                    THEN IF IsEnglish(req[p].ep)
                         THEN /\ Appended(movements, movements')
                              /\ movimientos' = movimientos
                         ELSE /\ Appended(movimientos, movimientos')
                              /\ movements' = movements
                    ELSE /\ movements' = movements
                         /\ movimientos' = movimientos
           /\ (movements' # movements \/ movimientos' # movimientos) =>
                 \E p \in Procs : Returned(p) /\ last'.result.kind = "ok"]_vars

\* Two accepted movements: the second record has the greater identifier.
C17_Witness ==
    /\ Len(movements) = 2
    /\ movements[1].id < movements[2].id
    /\ last.result.kind = "ok"

\* C18: in every reachable state the slots of both registries are the
\* seeded ones: no submit, accepted, rejected or failed, has made or removed
\* one.
C18_SlotSetFixed ==
    /\ DOMAIN locations = DOMAIN SeedLocations
    /\ DOMAIN ubicaciones = DOMAIN SeedUbicaciones

\* register_movement accepted an Entrada for a position that is no slot: the
\* ledger names it, the registry does not.
C18_Witness ==
    /\ last.req.ep = "app" /\ last.result.kind = "ok"
    /\ last.req.position_id \notin Slots
    /\ \E i \in DOMAIN movements :
          movements[i].position_id = last.req.position_id
    /\ last.req.position_id \notin DOMAIN locations

\* C22: the bootstrap of an empty store makes exactly the 20 slots A-01 ..
\* A-20, every one of them Free with no occupant: the step that puts the
\* first rows in a registry puts these, and no registry ever has other slots.
C22_TwentyFreeSlots ==
    [][LET twenty ==
               {"A-01", "A-02", "A-03", "A-04", "A-05", "A-06", "A-07",
                "A-08", "A-09", "A-10", "A-11", "A-12", "A-13", "A-14",
                "A-15", "A-16", "A-17", "A-18", "A-19", "A-20"}
       IN  /\ (DOMAIN locations = {} /\ DOMAIN locations' # {}) =>
                /\ \E p \in Procs : req[p].ep = "init_db" /\ pc'[p] # pc[p]
                /\ DOMAIN locations' = twenty
                /\ Cardinality(DOMAIN locations') = 20
                /\ \A s \in twenty :
                      locations'[s] = [status |-> "Libre", product_sku |-> NULL]
           /\ (DOMAIN ubicaciones = {} /\ DOMAIN ubicaciones' # {}) =>
                /\ \E p \in Procs :
                      req[p].ep = "crear_ubicaciones_ejemplo" /\ Returned(p)
                /\ DOMAIN ubicaciones' = twenty
                /\ Cardinality(DOMAIN ubicaciones') = 20
                /\ \A s \in twenty :
                      ubicaciones'[s] =
                         [estado |-> "Disponible", sku_producto |-> NULL]
           /\ DOMAIN locations' \in {{}, twenty}
           /\ DOMAIN ubicaciones' \in {{}, twenty}]_vars

\* Both bootstraps have run on the empty store and no movement yet: init_db
\* returned last, every slot of both registries is Free.
C22_Witness ==
    /\ last.req.ep = "init_db" /\ last.result.kind = "ok"
    /\ movements = <<>> /\ movimientos = <<>>
    /\ Cardinality(DOMAIN locations) = 20
    /\ Cardinality(DOMAIN ubicaciones) = 20
    /\ \A s \in DOMAIN locations : locations[s].status = "Libre"
    /\ \A s \in DOMAIN ubicaciones : ubicaciones[s].estado = "Disponible"

\* C21: every submit call terminates with an accept, a rejection or an error,
\* whatever the slot state and whatever other calls run; an Inbound to an
\* occupied slot is rejected by the very step that reads the slot, without
\* waiting for the slot to become free.
C21_SubmitTerminates ==
    /\ \A p \in Procs : (pc[p] # "idle") ~> (pc[p] = "idle")
    /\ [][\A p \in Procs :
            /\ Returned(p) =>
                  last'.result.kind \in {"ok", "rejected", "error"}
            /\ ( /\ pc[p] = "validate" /\ pc'[p] # pc[p]
                 /\ Inbound(req[p])
                 /\ SlotIn(DB, req[p].ep, req[p].position_id).exists
                 /\ ~SlotIn(DB, req[p].ep, req[p].position_id).free )
               => /\ Returned(p)
                  /\ last'.result.kind = "rejected"
                  /\ DBAfter = DB]_vars

\* An Inbound to an occupied slot was rejected, in a call that began while
\* the call that occupied the slot was still running.
C21_Witness ==
    /\ last.result.kind = "rejected"
    /\ Inbound(last.req)
    /\ last.req.position_id \in Slots
    /\ last.nret >= 1

\* C23: a submit on slot s, accepted or not, leaves the status and occupant
\* of every slot other than s as they were: the step that ends the call
\* changes no other row of either registry, and no other step changes a
\* registry at all.
C23_OtherSlotsUnchanged ==
    [][/\ \A p \in Procs :
            Returned(p) =>
               /\ DOMAIN locations' = DOMAIN locations
               /\ DOMAIN ubicaciones' = DOMAIN ubicaciones
               /\ \A t \in DOMAIN locations \ {req[p].position_id} :
                     locations'[t] = locations[t]
               /\ \A t \in DOMAIN ubicaciones \ {req[p].position_id} :
                     ubicaciones'[t] = ubicaciones[t]
       /\ (\A p \in Procs : ~Returned(p)) =>
               /\ locations' = locations
               /\ ubicaciones' = ubicaciones]_vars

\* An accepted submit on one slot while another slot of the same registry is
\* occupied.
C23_Witness ==
    /\ last.result.kind = "ok"
    /\ last.req.position_id \in Slots
    /\ \E t \in Slots \ {last.req.position_id} :
          /\ SlotIn(DB, last.req.ep, t).exists
          /\ ~SlotIn(DB, last.req.ep, t).free

\* C24: for every slot, the ledger entries of that slot taken in identifier
\* order strictly alternate Inbound, Outbound, Inbound, ... starting with an
\* Inbound, and each Outbound carries the SKU of the Inbound immediately
\* before it.
C24_LedgerAlternates ==
    /\ \A s \in {movements[i].position_id : i \in DOMAIN movements} :
         LET e == SelectSeq(movements, LAMBDA m : m.position_id = s)
         IN  \A i \in DOMAIN e :
                IF i % 2 = 1
                THEN e[i].type = "Entrada"
                ELSE e[i].type = "Salida" /\ e[i].sku = e[i - 1].sku
    /\ \A s \in {movimientos[i].ubicacion_id : i \in DOMAIN movimientos} :
         LET e == SelectSeq(movimientos, LAMBDA m : m.ubicacion_id = s)
         IN  \A i \in DOMAIN e :
                IF i % 2 = 1
                THEN e[i].tipo = "ENTRADA"
                ELSE /\ e[i].tipo = "SALIDA"
                     /\ e[i].sku_producto = e[i - 1].sku_producto

\* C25: a request to api_register_movement whose type is neither 'Entrada'
\* nor 'Salida' skips both validation branches, is refused by the CHECK on
\* movements.type when its INSERT runs, and ends as an error; no step of the
\* call appends to the ledger or changes a slot.
C25_UnknownTypeIsError ==
    [][\A p \in Procs :
          ( /\ req[p].ep = "api"
            /\ req[p].type \notin {"Entrada", "Salida"}
            /\ pc'[p] # pc[p] )
          => /\ pc[p] = "validate" => pc'[p] = "insert"
             /\ pc[p] = "insert" =>
                   /\ Returned(p)
                   /\ lock = "none" =>
                         last'.result = [kind |-> "error",
                                         detail |-> "IntegrityError"]
             /\ Returned(p) => last'.result.kind = "error"
             /\ DBAfter = DB]_vars

\* The CHECK refused an 'Ajuste' after an earlier movement was accepted.
C25_Witness ==
    /\ last.req.ep = "api"
    /\ last.req.type = "Ajuste"
    /\ last.result = [kind |-> "error", detail |-> "IntegrityError"]
    /\ movements # <<>>

====
